---- MODULE Spec2Model ----
(***************************************************************************)
(* Model of ESP_screen_receiver.ino: the serial frame receiver (loop) and  *)
(* the 1-bit frame renderer (drawFrameFast), together with the byte source *)
(* on the other end of the serial link.                                    *)
(*                                                                         *)
(* The frame geometry is scaled: the sketch uses 128 x 96 pixels (16 bytes *)
(* per row, 96 rows); the model keeps the same formulas over RowBytes      *)
(* bytes per row and Rows rows.                                            *)
(***************************************************************************)
EXTENDS Integers, Sequences, FiniteSets, TLC

\* ---------------------------------------------------------------- bounds
RowBytes == 2
Rows == 2
\* Bytes the sender puts on the link in all: at the geometry above, one byte
\* before the first frame boundary and two whole frames.
MaxSent == 9
MaxLead == 1

\* ------------------------------------------------------ program constants
FRAME_W == 8 * RowBytes
FRAME_H == Rows
BYTES_PER_FRAME == (FRAME_W * FRAME_H) \div 8

TFT_WHITE == 65535
TFT_BLACK == 0
ACK == 170

\* What the sender puts on the link: the bytes before the first frame boundary
\* take their value from LeadVals, and every frame is one of the FrameKinds.
LeadVals == {85}
FrameKinds == {0, 1}
Payload(k) ==
    [i \in 1..BYTES_PER_FRAME |->
        IF k = 0 THEN (IF i % 3 = 1 THEN 178 ELSE IF i % 3 = 2 THEN 77 ELSE 255)
                 ELSE 161]

\* Values of the bytes of a frame handed straight to the renderer.
RenderVals == {0, 255, 178}

\* Pixels lit by the boot splash text (a stand-in for the glyph raster).
SplashPixels == {<<0, 0>>, <<2, 0>>, <<1, 1>>}

VARIABLES
    pc,         \* position of the sketch: setup (setup() not yet run), waiting (setup()
                \* returned, loop() not yet called), flush, read, check, pixel, push,
                \* ack, loop (loop() returned, about to be called again)
    rx,         \* bytes buffered by the serial driver, oldest first
    out,        \* bytes written to the serial link by the sketch
    frameBuf,   \* uint8_t frameBuf[BYTES_PER_FRAME], each byte with the link id it came from
    n,          \* readBytes: bytes stored so far by the current/last call
    bytesRead,  \* loop: int bytesRead, -1 while not yet assigned in this call of loop()
    x, y,       \* drawFrameFast: loop counters
    lineBuf,    \* drawFrameFast: static uint16_t lineBuf[FRAME_W]
    surface,    \* the panel's pixels in the frame region, surface[y+1][x+1]
    sent,       \* sender: bytes put on the link so far
    gap,        \* sender: silent for at least the read timeout
    lead,       \* sender: number of bytes sent before the first frame boundary
    kind,       \* sender: which of the FrameKinds the frame being sent is
    trace,      \* history: events of the current call of loop()
    flushed,    \* history: bytes discarded by the flush of the current call of loop()
    renders,    \* history: calls of drawFrameFast that have returned
    reads,      \* history: how often the current call of drawFrameFast read each
                \* byte index of its argument (0-based)
    sentAtStart,\* history: value of sent when the current call of loop() began
    stalled,    \* history: a call of loop() ended in a short read of exactly the lead bytes
    last        \* history: outcome of the previous call of loop()

vars == <<pc, rx, out, frameBuf, n, bytesRead, x, y, lineBuf, surface,
          sent, gap, lead, kind, trace, flushed, renders, reads, sentAtStart, stalled,
          last>>

recvVars == <<pc, out, frameBuf, n, bytesRead, x, y, lineBuf, surface, trace,
              flushed, renders, reads, sentAtStart, stalled, last>>

\* ---------------------------------------------------------------- helpers
Pow2(k) == 2 ^ k

\* Faulty variant of Mask: the mask walks from the least significant bit (0x01 << (x & 7)).
MaskLsbFirst(px) == Pow2(px % 8)

\* 0x80 >> (x & 7)
Mask(px) == 128 \div Pow2(px % 8)

\* byte & mask, for a mask with a single bit set
BitAnd(b, m) == ((b \div m) % 2) * m

\* Faulty variant of PixelColor: only set pixels are written, a clear bit leaves the
\* scanline entry as it was.
PixelColorSticky(b, px) ==
    IF ((b \div (128 \div Pow2(px % 8))) % 2) # 0 THEN TFT_WHITE ELSE lineBuf[px + 1]

\* bool pixel = byte & (0x80 >> (x & 7)); pixel ? TFT_WHITE : TFT_BLACK
PixelColor(b, px) == IF BitAnd(b, Mask(px)) # 0 THEN TFT_WHITE ELSE TFT_BLACK

bytesPerRow == FRAME_W \div 8

\* Faulty variants of ByteIndex: the column byte is left out (rowData[0]); the
\* row stride is the width in pixels (data + y * FRAME_W).
ByteIndexNoColumn(py, px) == py * (FRAME_W \div 8)
ByteIndexPixelStride(py, px) == py * FRAME_W + (px \div 8)

\* rowData[x >> 3] with rowData = data + y * bytesPerRow (0-based index into data)
ByteIndex(py, px) == py * bytesPerRow + (px \div 8)

Vals(buf) == [i \in 1..Len(buf) |-> buf[i].v]
Ids(buf) == [i \in 1..Len(buf) |-> buf[i].id]

BlankLine == [i \in 1..FRAME_W |-> TFT_BLACK]
BlackSurface == [r \in 1..FRAME_H |-> BlankLine]
SplashSurface ==
    [r \in 1..FRAME_H |->
        [c \in 1..FRAME_W |->
            IF <<c - 1, r - 1>> \in SplashPixels THEN TFT_WHITE ELSE TFT_BLACK]]

ZeroFrame == [i \in 1..BYTES_PER_FRAME |-> [id |-> 0, v |-> 0]]

NoReads == [i \in 0..(BYTES_PER_FRAME - 1) |-> 0]

NoLast == [ok |-> FALSE, frame |-> <<>>, surface |-> <<>>, rows |-> <<>>, acks |-> 0]

\* Rows pushed and bytes written in the current call of loop(). A push event is
\* <<"push", y, data, x, w, h>> for tft.pushImage(x, y, w, h, data).
PushesOf(t) == SelectSeq(t, LAMBDA e : e[1] = "push")
AcksOf(t) == SelectSeq(t, LAMBDA e : e[1] = "ack")

\* ------------------------------------------------------------------- Init
Init ==
    /\ pc = "setup"
    /\ rx = <<>>
    /\ out = <<>>
    /\ frameBuf = ZeroFrame
    /\ n = 0
    /\ bytesRead = -1
    /\ x = 0
    /\ y = 0
    /\ lineBuf = BlankLine
    /\ surface = BlackSurface
    /\ sent = 0
    /\ gap = TRUE
    /\ lead \in 0..MaxLead
    /\ kind = 0
    /\ trace = <<>>
    /\ flushed = 0
    /\ renders = 0
    /\ reads = NoReads
    /\ sentAtStart = 0
    /\ stalled = FALSE
    /\ last = NoLast

\* ----------------------------------------------------------------- sender
\* One byte arrives in the driver's receive buffer.
Send ==
    /\ sent < MaxSent
    /\ IF sent < lead
         THEN /\ \E b \in LeadVals : rx' = Append(rx, [id |-> sent + 1, v |-> b])
              /\ UNCHANGED kind
         ELSE LET pos == (sent - lead) % BYTES_PER_FRAME IN
              /\ IF pos = 0 THEN kind' \in FrameKinds ELSE UNCHANGED kind
              /\ rx' = Append(rx, [id |-> sent + 1, v |-> Payload(kind')[pos + 1]])
    /\ sent' = sent + 1
    /\ gap' = FALSE
    /\ UNCHANGED <<lead>>
    /\ UNCHANGED recvVars

\* The sender stays silent for longer than the read timeout.
Stall ==
    /\ ~gap
    /\ gap' = TRUE
    /\ UNCHANGED <<rx, sent, lead, kind>>
    /\ UNCHANGED recvVars

\* ------------------------------------------------------------------ setup
Setup ==
    /\ pc = "setup"
    /\ UNCHANGED reads
    /\ surface' = SplashSurface
    /\ pc' = "waiting"
    /\ UNCHANGED <<rx, out, frameBuf, n, bytesRead, x, y, lineBuf, sent, gap, lead, kind,
                   trace, flushed, renders, sentAtStart, stalled, last>>

\* ------------------------------------------------------------------- loop
\* The core calls loop() (again).
LoopEnter ==
    /\ pc \in {"waiting", "loop"}
    /\ UNCHANGED reads
    /\ pc' = "flush"
    /\ bytesRead' = -1
    /\ n' = 0
    /\ trace' = <<>>
    /\ flushed' = 0
    /\ sentAtStart' = sent
    /\ last' = IF bytesRead = BYTES_PER_FRAME
                 THEN [ok |-> TRUE, frame |-> Vals(frameBuf), surface |-> surface,
                       rows |-> PushesOf(trace), acks |-> Len(AcksOf(trace))]
                 ELSE NoLast
    /\ UNCHANGED <<rx, out, frameBuf, x, y, lineBuf, surface, sent, gap, lead, kind,
                   renders, stalled>>

\* while (Serial.available()) Serial.read();   -- one iteration
FlushRead ==
    /\ pc = "flush"
    /\ rx # <<>>
    /\ UNCHANGED reads
    /\ rx' = Tail(rx)
    /\ flushed' = flushed + 1
    /\ UNCHANGED <<pc, out, frameBuf, n, bytesRead, x, y, lineBuf, surface, sent, gap,
                   lead, kind, trace, renders, sentAtStart, stalled, last>>

\* Faulty variant of FlushGuard: the flush loop is left without looking at the buffer.
FlushGuardSkipped == TRUE

\* Serial.available() is 0
FlushGuard == rx = <<>>

\* Serial.available() returned 0: the loop ends and readBytes is called.
FlushDone ==
    /\ pc = "flush"
    /\ FlushGuard
    /\ UNCHANGED reads
    /\ pc' = "read"
    /\ n' = 0
    /\ trace' = Append(trace, <<"flush">>)
    /\ UNCHANGED <<rx, out, frameBuf, bytesRead, x, y, lineBuf, surface, sent, gap,
                   lead, kind, flushed, renders, sentAtStart, stalled, last>>

\* readBytes: one byte is taken from the driver and stored; the call returns
\* when BYTES_PER_FRAME bytes are stored.
ReadByte ==
    /\ pc = "read"
    /\ rx # <<>>
    /\ UNCHANGED reads
    /\ n < BYTES_PER_FRAME
    /\ frameBuf' = [frameBuf EXCEPT ![n + 1] = Head(rx)]
    /\ rx' = Tail(rx)
    /\ n' = n + 1
    /\ IF n + 1 = BYTES_PER_FRAME
         THEN /\ pc' = "check"
              /\ bytesRead' = n + 1
              /\ trace' = Append(trace, <<"read", n + 1>>)
         ELSE UNCHANGED <<pc, bytesRead, trace>>
    /\ UNCHANGED <<out, x, y, lineBuf, surface, sent, gap, lead, kind, flushed,
                   renders, sentAtStart, stalled, last>>

\* Faulty variant of TimeoutGuard: the read has no timeout.
TimeoutNever == FALSE

\* timedRead: the buffer is empty and stayed empty for the whole timeout
TimeoutGuard == rx = <<>> /\ gap

\* readBytes: no byte arrived within the timeout; the call returns the count so far.
ReadTimeout ==
    /\ pc = "read"
    /\ TimeoutGuard
    /\ UNCHANGED reads
    /\ pc' = "check"
    /\ bytesRead' = n
    /\ trace' = Append(trace, <<"read", n>>)
    /\ stalled' = (stalled \/ (lead > 0 /\ n = lead /\ sent = lead))
    /\ UNCHANGED <<rx, out, frameBuf, n, x, y, lineBuf, surface, sent, gap, lead, kind,
                   flushed, renders, sentAtStart, last>>

\* Faulty variant of FrameComplete: any read that stored something is rendered.
FrameCompleteAny(k) == k > 0

\* bytesRead == BYTES_PER_FRAME
FrameComplete(k) == k = BYTES_PER_FRAME

\* if (bytesRead == BYTES_PER_FRAME) drawFrameFast(frameBuf);
CheckOk ==
    /\ pc = "check"
    /\ FrameComplete(bytesRead)
    /\ pc' = "pixel"
    /\ x' = 0
    /\ y' = 0
    /\ reads' = NoReads
    /\ UNCHANGED <<rx, out, frameBuf, n, bytesRead, lineBuf, surface, sent, gap, lead, kind,
                   trace, flushed, renders, sentAtStart, stalled, last>>

\* Faulty variants of ShortTarget: the acknowledgement is written outside the if; the
\* sketch starts over from setup() after a short read.
ShortTargetAck == "ack"
ShortTargetRestart == "setup"

\* Where control goes when the if is not taken: loop() returns.
ShortTarget == "loop"

\* the if is not taken
CheckShort ==
    /\ pc = "check"
    /\ ~FrameComplete(bytesRead)
    /\ UNCHANGED reads
    /\ pc' = ShortTarget
    /\ UNCHANGED <<rx, out, frameBuf, n, bytesRead, x, y, lineBuf, surface, sent, gap,
                   lead, kind, trace, flushed, renders, sentAtStart, stalled, last>>

\* ---------------------------------------------------------- drawFrameFast
\* Faulty variant of AfterPixel: the inner loop stops one pixel early
\* (x < FRAME_W - 1).
AfterPixelShort(px) == IF px + 1 < FRAME_W - 1 THEN "pixel" ELSE "push"

\* for (int x = 0; x < FRAME_W; x++): after pixel px, the next pixel or the push
AfterPixel(px) == IF px + 1 < FRAME_W THEN "pixel" ELSE "push"

\* Faulty variant of DrawPixel: the bit that was tested is cleared in the frame
\* (the renderer consumes its argument instead of only reading it).
DrawPixelInPlace ==
    /\ pc = "pixel"
    /\ x < FRAME_W
    /\ lineBuf' = [lineBuf EXCEPT
                     ![x + 1] = PixelColor(frameBuf[ByteIndex(y, x) + 1].v, x)]
    /\ frameBuf' = [frameBuf EXCEPT
                      ![ByteIndex(y, x) + 1].v = @ - BitAnd(@, Mask(x))]
    /\ reads' = [reads EXCEPT ![ByteIndex(y, x)] = @ + 1]
    /\ x' = x + 1
    /\ pc' = AfterPixel(x)
    /\ UNCHANGED <<rx, out, n, bytesRead, y, surface, sent, gap, lead, kind,
                   trace, flushed, renders, sentAtStart, stalled, last>>

\* one iteration of the inner loop: lineBuf[x] = pixel ? TFT_WHITE : TFT_BLACK
DrawPixel ==
    /\ pc = "pixel"
    /\ x < FRAME_W
    /\ lineBuf' = [lineBuf EXCEPT
                     ![x + 1] = PixelColor(frameBuf[ByteIndex(y, x) + 1].v, x)]
    /\ reads' = IF ByteIndex(y, x) \in DOMAIN reads
                  THEN [reads EXCEPT ![ByteIndex(y, x)] = @ + 1]
                  ELSE reads
    /\ x' = x + 1
    /\ pc' = AfterPixel(x)
    /\ UNCHANGED <<rx, out, frameBuf, n, bytesRead, y, surface, sent, gap, lead, kind,
                   trace, flushed, renders, sentAtStart, stalled, last>>

\* Faulty variant of AfterRow: drawFrameFast returns after its first row.
AfterRowReturn(py) == "ack"

\* for (int y = 0; y < FRAME_H; y++): after row py, the next row or the return
AfterRow(py) == IF py + 1 < FRAME_H THEN "pixel" ELSE "ack"

\* tft.pushImage(0, y, FRAME_W, 1, lineBuf); y++
PushRow ==
    /\ pc = "push"
    /\ UNCHANGED reads
    /\ surface' = [surface EXCEPT ![y + 1] = lineBuf]
    /\ trace' = Append(trace, <<"push", y, lineBuf, 0, FRAME_W, 1>>)
    /\ y' = y + 1
    /\ x' = 0
    /\ pc' = AfterRow(y)
    /\ renders' = IF AfterRow(y) = "ack" THEN renders + 1 ELSE renders
    /\ UNCHANGED <<rx, out, frameBuf, n, bytesRead, lineBuf, sent, gap, lead, kind,
                   flushed, sentAtStart, stalled, last>>

\* Serial.write(0xAA); loop() returns
Ack ==
    /\ pc = "ack"
    /\ UNCHANGED reads
    /\ out' = Append(out, ACK)
    /\ trace' = Append(trace, <<"ack", ACK>>)
    /\ pc' = "loop"
    /\ UNCHANGED <<rx, frameBuf, n, bytesRead, x, y, lineBuf, surface, sent, gap, lead, kind,
                   flushed, renders, sentAtStart, stalled, last>>

Receiver ==
    \/ Setup
    \/ LoopEnter
    \/ FlushRead
    \/ FlushDone
    \/ ReadByte
    \/ ReadTimeout
    \/ CheckOk
    \/ CheckShort
    \/ DrawPixel
    \/ PushRow
    \/ Ack

Next ==
    \/ Send
    \/ Stall
    \/ Setup
    \/ LoopEnter
    \/ FlushRead
    \/ FlushDone
    \/ ReadByte
    \/ ReadTimeout
    \/ CheckOk
    \/ CheckShort
    \/ DrawPixel
    \/ PushRow
    \/ Ack

Spec == Init /\ [][Next]_vars

\* ------------------------------------------------------------- fairness
\* The sketch keeps running (the core calls loop() for ever, and no step of it
\* waits for anything but the timed read), and time passes: a sender that is
\* not sending has, after a while, been silent for longer than the timeout.
SpecFair == Spec /\ WF_vars(Receiver) /\ WF_vars(Stall)

\* ------------------------------------------------- the renderer on its own
\* drawFrameFast applied to any frame over RenderVals, from the state in which
\* loop() calls it: the panel shows the splash or an older picture, and lineBuf
\* holds whatever the previous call left in it.
WhiteLine == [i \in 1..FRAME_W |-> TFT_WHITE]

InitRender ==
    /\ pc = "pixel"
    /\ rx = <<>>
    /\ out = <<>>
    /\ frameBuf \in [1..BYTES_PER_FRAME -> [id : {0}, v : RenderVals]]
    /\ n = BYTES_PER_FRAME
    /\ bytesRead = BYTES_PER_FRAME
    /\ x = 0
    /\ y = 0
    /\ lineBuf \in {BlankLine, WhiteLine}
    /\ surface = SplashSurface
    /\ sent = 0
    /\ gap = TRUE
    /\ lead = 0
    /\ kind = 0
    /\ trace = <<<<"flush">>, <<"read", BYTES_PER_FRAME>>>>
    /\ flushed = 0
    /\ renders = 0
    /\ reads = NoReads
    /\ sentAtStart = 0
    /\ stalled = FALSE
    /\ last = NoLast

NextRender ==
    \/ DrawPixel
    \/ PushRow

SpecRender == InitRender /\ [][NextRender]_vars

\* ------------------------------------------- a protocol-compliant sender
\* The sender sends whole frames only (no byte before the first frame
\* boundary), and starts frame f + 1 only when the sketch has written the
\* acknowledgement of frame f. Within a frame it sends as it likes.
FramesSent == sent \div BYTES_PER_FRAME

MayStartFrame == sent % BYTES_PER_FRAME = 0 => Len(out) >= FramesSent

SendCompliant ==
    /\ MayStartFrame
    /\ Send

InitCompliant ==
    /\ Init
    /\ lead = 0

NextCompliant ==
    \/ SendCompliant
    \/ Stall
    \/ Setup
    \/ LoopEnter
    \/ FlushRead
    \/ FlushDone
    \/ ReadByte
    \/ ReadTimeout
    \/ CheckOk
    \/ CheckShort
    \/ DrawPixel
    \/ PushRow
    \/ Ack

SpecCompliant == InitCompliant /\ [][NextCompliant]_vars

\* The sketch keeps running, time passes, and the sender sends whenever the
\* protocol lets it.
SpecCompliantFair ==
    SpecCompliant /\ WF_vars(Receiver) /\ WF_vars(Stall) /\ WF_vars(SendCompliant)

\* =================================================================== claims
Phase == IF pc = "setup" THEN "Boot" ELSE IF pc = "waiting" THEN "Waiting" ELSE "Streaming"

DrawPcs == {"pixel", "push", "ack"}

IsPrefix(s, t) == Len(s) <= Len(t) /\ \A i \in 1..Len(s) : s[i] = t[i]

\* The frame the sender sent as its f-th (f >= 1): the ids of its bytes, in order.
FrameIds(f) == [i \in 1..BYTES_PER_FRAME |-> lead + (f - 1) * BYTES_PER_FRAME + i]

\* --- C1 -------------------------------------------------------------------
\* C1: in a call of loop(), rows are pushed to the display and the
\* acknowledgement is written if and only if readBytes returned exactly
\* BYTES_PER_FRAME: a call that has pushed a row, written a byte or is inside
\* drawFrameFast has bytesRead = BYTES_PER_FRAME, and when the call returns it
\* has pushed FRAME_H rows and written one byte if bytesRead = BYTES_PER_FRAME
\* (whatever the bytes are) and has pushed and written nothing otherwise.
C1_RenderIffFullRead ==
    /\ (pc \in DrawPcs \/ PushesOf(trace) # <<>> \/ AcksOf(trace) # <<>>)
          => bytesRead = BYTES_PER_FRAME
    /\ pc = "loop" =>
          IF bytesRead = BYTES_PER_FRAME
            THEN Len(PushesOf(trace)) = FRAME_H /\ Len(AcksOf(trace)) = 1
            ELSE PushesOf(trace) = <<>> /\ AcksOf(trace) = <<>>

\* A call of loop() that rendered is followed by one that returned after a
\* short read that did store bytes.
C1_Witness ==
    /\ pc = "loop"
    /\ last.ok
    /\ bytesRead > 0
    /\ bytesRead < BYTES_PER_FRAME

\* --- C2 -------------------------------------------------------------------
\* The events of a call of loop() that rendered, in order.
FullCycleShape(t) ==
    /\ Len(t) = FRAME_H + 3
    /\ t[1] = <<"flush">>
    /\ t[2] = <<"read", BYTES_PER_FRAME>>
    /\ \A r \in 0..(FRAME_H - 1) : t[3 + r][1] = "push" /\ t[3 + r][2] = r
    /\ t[FRAME_H + 3] = <<"ack", ACK>>

\* C2: a successful call of loop() does flush, read, the row transfers
\* 0..FRAME_H-1 in order, one acknowledgement byte, and then returns; a byte is
\* written only after the last row was pushed, and between the read returning
\* and the byte being written nothing is taken from the receive buffer.
C2_CycleOrder ==
    /\ [](pc = "loop" /\ bytesRead = BYTES_PER_FRAME => FullCycleShape(trace))
    /\ [](\A i \in 1..Len(trace) :
             trace[i][1] = "ack" => i = FRAME_H + 3 /\ pc = "loop")
    /\ [][/\ pc \in ({"check"} \cup DrawPcs) => IsPrefix(rx, rx')
          /\ out' # out =>
                /\ pc = "ack"
                /\ Len(PushesOf(trace)) = FRAME_H
                /\ out' = Append(out, ACK)
                /\ pc' = "loop"]_vars

\* The acknowledgement has been written while bytes that arrived during the
\* render are still waiting in the receive buffer.
C2_Witness ==
    /\ pc = "loop"
    /\ bytesRead = BYTES_PER_FRAME
    /\ rx # <<>>
    /\ Len(out) = 1

\* --- C3 -------------------------------------------------------------------
\* C3 (as claimed): the sender sends lead >= 1 garbage bytes and then one clean
\* frame; whatever the timing, the frame that is rendered is the clean frame.
C3_Orig_RendersCleanFrame ==
    (lead >= 1 /\ sent <= lead + BYTES_PER_FRAME /\ pc \in DrawPcs)
        => Ids(frameBuf) = FrameIds(1)

\* --- C4 -------------------------------------------------------------------
\* C4 (as claimed): after a call of loop() read just the lead bytes and timed
\* out, the one frame sent next is received intact: the i-th byte a later read
\* stores is the i-th byte of that frame.
C4_Orig_FrameIntactAfterStall ==
    (stalled /\ sent <= lead + BYTES_PER_FRAME)
        => \A i \in 1..n : frameBuf[i].id > lead => frameBuf[i].id = lead + i

\* --- C5 -------------------------------------------------------------------
\* Packing the panel's pixels back: white -> 1, black -> 0, row-major,
\* MSB first, 8 pixels per byte.
RepackByte(surf, i) ==
    LET r == (i - 1) \div bytesPerRow
        c == (i - 1) % bytesPerRow
        bit(k) == IF surf[r + 1][8 * c + k + 1] = TFT_WHITE THEN Pow2(7 - k) ELSE 0
    IN bit(0) + bit(1) + bit(2) + bit(3) + bit(4) + bit(5) + bit(6) + bit(7)

Repack(surf) == [i \in 1..BYTES_PER_FRAME |-> RepackByte(surf, i)]

\* C5: when drawFrameFast(F) has returned, packing the panel back gives F.
C5_RoundTrip ==
    pc = "ack" => Repack(surface) = Vals(frameBuf)

\* drawFrameFast has returned for a frame whose first byte is 0xB2 and whose
\* last byte is 0, over a scanline buffer that was all white.
C5_Witness ==
    /\ pc = "ack"
    /\ frameBuf[1].v = 178
    /\ frameBuf[BYTES_PER_FRAME].v = 0
    /\ renders = 1

\* --- C6 -------------------------------------------------------------------
\* C6 (as claimed): in every state, every byte written is 0xAA and the number
\* of bytes written equals the number of renders that have completed.
C6_Orig_AcksEqualRenders ==
    /\ \A i \in 1..Len(out) : out[i] = ACK
    /\ Len(out) = renders

\* C6 (amended): every byte written is 0xAA, and the number of bytes written
\* equals the number of completed renders, except between drawFrameFast
\* returning and Serial.write, where it is exactly one less.
C6_AcksFollowRenders ==
    /\ \A i \in 1..Len(out) : out[i] = ACK
    /\ Len(out) = (IF pc = "ack" THEN renders - 1 ELSE renders)
    /\ pc \in {"setup", "waiting"} => out = <<>>

\* Two frames were rendered and acknowledged, and a later call failed.
C6_Witness ==
    /\ Len(out) = 2
    /\ pc = "loop"
    /\ bytesRead < BYTES_PER_FRAME

\* --- C7 -------------------------------------------------------------------
\* C7: readBytes is entered only from the flush loop, with the receive buffer
\* seen empty, in every call of loop(); so no byte that was sent before the
\* call began is stored in frameBuf by that call.
C7_FlushBeforeRead ==
    /\ [](\A i \in 1..n : frameBuf[i].id > sentAtStart)
    /\ [][(pc # "read" /\ pc' = "read") => (pc = "flush" /\ rx = <<>>)]_vars
    /\ [][(pc \in {"waiting", "loop"}) => pc' \in {"waiting", "loop", "flush"}]_vars

\* After a successful call, the next call discarded buffered bytes and its read
\* has stored a byte.
C7_Witness ==
    /\ last.ok
    /\ flushed >= 1
    /\ pc = "read"
    /\ n >= 1

\* --- C8 -------------------------------------------------------------------
\* C8: when two consecutive calls of loop() both render and the two frames are
\* equal, the second leaves the panel as the first did, pushes the same rows,
\* and each call writes exactly one byte.
C8_Idempotent ==
    (pc = "loop" /\ bytesRead = BYTES_PER_FRAME /\ last.ok
        /\ Vals(frameBuf) = last.frame)
    => /\ surface = last.surface
       /\ PushesOf(trace) = last.rows
       /\ Len(AcksOf(trace)) = 1
       /\ last.acks = 1
       /\ Len(out) >= 2

\* The same frame of kind 0 (its rows differ) was rendered twice in a row.
C8_Witness ==
    /\ pc = "loop"
    /\ bytesRead = BYTES_PER_FRAME
    /\ last.ok
    /\ Vals(frameBuf) = last.frame
    /\ Vals(frameBuf) = Payload(0)

\* --- C9 -------------------------------------------------------------------
\* C9: under fairness every call of readBytes returns, and the flush at the
\* top of loop() runs again and again.
C9_ReadReturns ==
    /\ (pc = "read") ~> (pc = "check")
    /\ []<>(pc = "flush")

\* readBytes returned a short count after the sender stopped in mid-frame.
C9_Witness ==
    /\ pc = "check"
    /\ bytesRead > lead
    /\ bytesRead < BYTES_PER_FRAME
    /\ sentAtStart = 0

\* --- C10 ------------------------------------------------------------------
Pcs == {"setup", "waiting", "loop", "flush", "read", "check", "pixel", "push", "ack"}

\* C10: the sketch is in Waiting after setup() and in Streaming from the first
\* call of loop() on; Streaming is never left, and in Streaming the sketch
\* always has a next step, or is inside readBytes with the timeout running.
C10_NoWayBack ==
    /\ [](pc \in Pcs)
    /\ [][Phase = "Waiting" => Phase' \in {"Waiting", "Streaming"}]_vars
    /\ [][Phase = "Streaming" => Phase' = "Streaming"]_vars
    /\ [](Phase = "Streaming" =>
             \/ ENABLED Receiver
             \/ (pc = "read" /\ rx = <<>> /\ ENABLED Stall))

\* A call of loop() that got no input at all has returned.
C10_Witness ==
    /\ pc = "loop"
    /\ bytesRead = 0
    /\ sent = 0

\* --- C11 ------------------------------------------------------------------
\* Bit k (0 = least significant) of byte b.
BitOf(b, k) == (b \div Pow2(k)) % 2

\* The colour the frame asks for at pixel (px, py): white if bit 7 - (px mod 8)
\* of byte py * (FRAME_W / 8) + px / 8 is set, black otherwise.
WantedColor(buf, px, py) ==
    IF BitOf(buf[py * (FRAME_W \div 8) + (px \div 8) + 1].v, 7 - (px % 8)) = 1
      THEN TFT_WHITE ELSE TFT_BLACK

AllBytes(buf, b) == \A i \in 1..Len(buf) : buf[i].v = b
AllPixels(surf, c) == \A r \in 1..FRAME_H : \A k \in 1..FRAME_W : surf[r][k] = c

\* C11: when drawFrameFast has returned, every pixel (x, y) of the panel is white
\* if its bit of the frame is set and black otherwise; the scanline buffer and
\* the panel never hold another colour; an all-zero frame leaves the panel all
\* black and an all-ones frame all white.
C11_PixelMapping ==
    /\ \A k \in 1..FRAME_W : lineBuf[k] \in {TFT_WHITE, TFT_BLACK}
    /\ \A r \in 1..FRAME_H : \A k \in 1..FRAME_W : surface[r][k] \in {TFT_WHITE, TFT_BLACK}
    /\ pc = "ack" =>
          /\ \A py \in 0..(FRAME_H - 1) : \A px \in 0..(FRAME_W - 1) :
                surface[py + 1][px + 1] = WantedColor(frameBuf, px, py)
          /\ AllBytes(frameBuf, 0) => AllPixels(surface, TFT_BLACK)
          /\ AllBytes(frameBuf, 255) => AllPixels(surface, TFT_WHITE)

\* drawFrameFast has returned for a frame that starts 0x00, 0xB2 and ends 0xFF.
C11_Witness ==
    /\ pc = "ack"
    /\ frameBuf[1].v = 0
    /\ frameBuf[2].v = 178
    /\ frameBuf[BYTES_PER_FRAME].v = 255

\* --- C12 ------------------------------------------------------------------
\* Row py of the frame as colours.
WantedRow(buf, py) == [k \in 1..FRAME_W |-> WantedColor(buf, k - 1, py)]

\* C12: a call of drawFrameFast pushes row after row in ascending order, each
\* at x = 0, FRAME_W wide and 1 high, FRAME_H rows in all; when a row is pushed
\* every entry of the scanline buffer holds that row's colour.
C12_RowTransfers ==
    LET P == PushesOf(trace) IN
    /\ Len(P) = y
    /\ Len(P) <= FRAME_H
    /\ \A i \in 1..Len(P) :
          /\ P[i][2] = i - 1
          /\ P[i][3] = WantedRow(frameBuf, i - 1)
          /\ P[i][4] = 0
          /\ P[i][5] = FRAME_W
          /\ P[i][6] = 1
    /\ pc = "push" => x = FRAME_W /\ lineBuf = WantedRow(frameBuf, y)
    /\ pc = "ack" => Len(P) = FRAME_H

\* The last row, all black, is about to be pushed from the scanline buffer that
\* held the first row, which began all white, before.
C12_Witness ==
    /\ pc = "push"
    /\ y = FRAME_H - 1
    /\ frameBuf[1].v = 255
    /\ frameBuf[BYTES_PER_FRAME].v = 0
    /\ lineBuf = BlankLine

\* --- C13 ------------------------------------------------------------------
\* From readBytes returning BYTES_PER_FRAME up to the acknowledgement.
Rendering == pc \in ({"check"} \cup DrawPcs) /\ bytesRead = BYTES_PER_FRAME

\* C13: from the read returning BYTES_PER_FRAME until the acknowledgement is
\* written, no step changes a byte of frameBuf and no step takes a byte from
\* the receive buffer (bytes may only arrive).
C13_FrameUntouched ==
    [][Rendering => (frameBuf' = frameBuf /\ IsPrefix(rx, rx'))]_vars

\* drawFrameFast has returned for a frame read from the link, and bytes that
\* arrived meanwhile are still in the receive buffer.
C13_Witness ==
    /\ pc = "ack"
    /\ bytesRead = BYTES_PER_FRAME
    /\ frameBuf[1].id > 0
    /\ rx # <<>>

\* --- C14 ------------------------------------------------------------------
\* C14 (as claimed): with the compliant sender, once an acknowledgement has
\* been written, the flush of a later call of loop() discards nothing: all the
\* sender transmits after an acknowledgement belongs to the next frame.
C14_Orig_FlushKeepsFrameBytes ==
    (Len(out) >= 1 /\ pc \in {"flush", "read"}) => flushed = 0

\* --- C15 ------------------------------------------------------------------
\* The sender has sent a whole frame and is waiting for its acknowledgement.
AwaitingAck == sent > 0 /\ sent % BYTES_PER_FRAME = 0 /\ Len(out) < FramesSent

\* C15 (as claimed): with the compliant sender, whenever the sender waits for
\* an acknowledgement, the acknowledgement is eventually written.
C15_Orig_AckEventually ==
    AwaitingAck ~> ~AwaitingAck

\* --- C16 ------------------------------------------------------------------
\* C16: whenever drawFrameFast runs, every byte of frameBuf was stored by the
\* readBytes call of this call of loop(), in arrival order: all of them arrived
\* after this call of loop() began (what earlier reads stored arrived before),
\* and they are consecutive bytes of the link.
C16_FrameFromLastRead ==
    pc \in DrawPcs =>
        /\ n = BYTES_PER_FRAME
        /\ \A i \in 1..BYTES_PER_FRAME : frameBuf[i].id > sentAtStart
        /\ \A i \in 1..(BYTES_PER_FRAME - 1) : frameBuf[i + 1].id = frameBuf[i].id + 1

\* A short read left the lead bytes at the start of frameBuf, and a later call
\* of loop() is rendering its first frame.
C16_Witness ==
    /\ stalled
    /\ pc = "pixel"
    /\ out = <<>>

\* --- C17 ------------------------------------------------------------------
\* C17: every access of drawFrameFast is in bounds: while a pixel is converted,
\* x is in [0, FRAME_W), y in [0, FRAME_H) and the byte index in
\* [0, BYTES_PER_FRAME); when the call returns every byte index has been read
\* for exactly 8 pixels, and FRAME_H * (FRAME_W / 8) = BYTES_PER_FRAME.
C17_InBoundsAndTiling ==
    /\ pc = "pixel" =>
          /\ x \in 0..(FRAME_W - 1)
          /\ y \in 0..(FRAME_H - 1)
          /\ ByteIndex(y, x) \in 0..(BYTES_PER_FRAME - 1)
          /\ \A i \in DOMAIN reads : reads[i] <= 8
    /\ pc = "push" => y \in 0..(FRAME_H - 1)
    /\ pc = "ack" => \A i \in 0..(BYTES_PER_FRAME - 1) : reads[i] = 8
    /\ FRAME_H * (FRAME_W \div 8) = BYTES_PER_FRAME

\* The last pixel of the last row is about to be converted: every byte but the
\* last has been read 8 times, the last 7 times.
C17_Witness ==
    /\ pc = "pixel"
    /\ y = FRAME_H - 1
    /\ x = FRAME_W - 1
    /\ reads[BYTES_PER_FRAME - 1] = 7
    /\ reads[0] = 8

====
